---- MODULE Spec2Model ----
(***************************************************************************)
(* Pinion, pinion/generate.py: the pipeline that turns a board and an      *)
(* annotation document into front.png, back.png and spec.json.             *)
(*                                                                         *)
(* The module holds five specifications over one set of variables:         *)
(*   SpecRect      serializeEdaRect on native-unit rectangles              *)
(*   SpecPins      pinsDefinition on a footprint and a pins mapping        *)
(*   SpecCollect   collectGroups on the components of a document           *)
(*   SpecValidate  validateGroupStructure, applied once and then again     *)
(*   SpecGenerate  generate and generateImage, statement by statement      *)
(* A specification leaves the variables of the others at their idle value. *)
(***************************************************************************)
EXTENDS Integers, Sequences, FiniteSets, TLC

VARIABLES
    pc,             \* position of the running call
    rect,           \* serializeEdaRect: the EDA_RECT argument
    bbox,           \* serializeEdaRect: the returned dictionary
    pinsSpec,       \* pinsDefinition: the `spec` argument (pad name -> PinSpec)
    footprint,      \* pinsDefinition: footprint.Pads(), in native order
    pinsOut,        \* pinsDefinition: the returned list
    components,     \* collectGroups: the `components` argument
    collected,      \* collectGroups: the returned dictionary, in key order
    struct,         \* validateGroupStructure: the argument
    newStruct,      \* validateGroupStructure: the result of the first call
    reStruct,       \* validateGroupStructure: the result on newStruct
    entry,          \* which function was called: "generate" or "generateImage"
    stage,          \* generate: index into GenerateOrder
    back,           \* generateImage: the `back` argument of the running call
    outputfilename, \* generateImage: <<stem, extension>> of the bitmap
    tmpdir,         \* side -> the TemporaryDirectory of that side exists
    svg,            \* side -> img.svg of that side exists
    outfiles,       \* bitmaps written so far (file names)
    specFile,       \* spec.json: "absent", "empty" (opened) or "complete"
    area,           \* side -> the bounding box generateImage returned
    specification,  \* generate: the annotation document
    board,          \* generate: the references the board has a footprint for
    defs,           \* generate: result of componentsDefinition
    groups,         \* generate: result of groupStructure
    fault,          \* the exception that ended the call, "none" without one
    log             \* history of the external effects, oldest first

rectVars == <<rect, bbox>>
pinVars == <<pinsSpec, footprint, pinsOut>>
collectVars == <<components, collected>>
validateVars == <<struct, newStruct, reStruct>>
genVars == <<entry, stage, back, outputfilename, tmpdir, svg, outfiles, specFile,
             area, specification, board, defs, groups, fault, log>>
notGenVars == <<rectVars, pinVars, collectVars, validateVars>>
vars == <<pc, rectVars, pinVars, collectVars, validateVars, genVars>>

----------------------------------------------------------------------------
(* Bounds of the model.                                                    *)

MaxCoord == 2       \* rectangle origins range over -MaxCoord..MaxCoord
MaxSize == 2        \* rectangle widths and heights over -MaxSize..MaxSize
MaxPads == 4        \* pads of a footprint
MaxGroups == 2      \* length of a `groups` list
MaxLen == 2         \* length of a list inside a group structure

----------------------------------------------------------------------------
(* Unit conversion.  A millimetre value is the exact quotient num/den; the *)
(* float division of an integer below 2^53 by 1000000.0 is correctly       *)
(* rounded and therefore keeps the order of the quotients.                 *)

NativePerMm == 1000000
NativePerDecimil == 2540

dmil2ki(val) == val * NativePerDecimil

ki2mm(val) == [num |-> val, den |-> NativePerMm]

mm2ki(val) == val * NativePerMm

MmLeq(a, b) == a.num * b.den <= b.num * a.den

----------------------------------------------------------------------------
(* Values shared by the specifications.                                    *)

Sides == {FALSE, TRUE}      \* the `back` argument: FALSE front, TRUE back

Get(d, key, default) == IF key \in DOMAIN d THEN d[key] ELSE default

Range(s) == {s[i] : i \in DOMAIN s}

----------------------------------------------------------------------------
(* serializeEdaRect.  An EDA_RECT is an origin with a width and a height,  *)
(* each of which KiCad lets be negative.                                   *)

Rects == [x : -MaxCoord..MaxCoord, y : -MaxCoord..MaxCoord,
          w : -MaxSize..MaxSize, h : -MaxSize..MaxSize]

serializeEdaRect(r) ==
    [tl |-> <<ki2mm(r.x), ki2mm(r.y)>>,
     br |-> <<ki2mm(r.x + r.w), ki2mm(r.y + r.h)>>]

IdleRect ==
    /\ rect = [x |-> 0, y |-> 0, w |-> 0, h |-> 0]
    /\ bbox = serializeEdaRect([x |-> 0, y |-> 0, w |-> 0, h |-> 0])

InitRect ==
    /\ pc = "call"
    /\ rect \in Rects
    /\ bbox = serializeEdaRect([x |-> 0, y |-> 0, w |-> 0, h |-> 0])

SerializeEdaRect ==
    /\ pc = "call"
    /\ bbox' = serializeEdaRect(rect)
    /\ pc' = "done"
    /\ UNCHANGED rect
    /\ UNCHANGED <<pinVars, collectVars, validateVars, genVars>>

----------------------------------------------------------------------------
(* pinDefinition and pinsDefinition.  A pad carries its name, its position *)
(* and its bounding box; the i-th pad of a footprint sits at x = i, so two *)
(* pads of a footprint never share a position.  The fields pcbnew alone    *)
(* decides (shape, front, back) are left out of a pin.                     *)

PadNames == {"1", "2", "3", "4"}
PinLabels == {"A", "B"}

Pad(name, i) ==
    [name |-> name, x |-> i, y |-> 0,
     box |-> [x |-> i, y |-> 0, w |-> 1, h |-> 1]]

Footprints ==
    UNION {{[i \in 1..n |-> Pad(f[i], i)] : f \in [1..n -> PadNames]} : n \in 0..MaxPads}

PinsSpecs ==
    UNION {{[k \in S |-> [name |-> f[k]]] : f \in [S -> PinLabels]} : S \in SUBSET PadNames}

pinDefinition(spec, pad) ==
    [bbox |-> serializeEdaRect(pad.box),
     pos |-> <<ki2mm(pad.x), ki2mm(pad.y)>>,
     name |-> spec.name,
     description |-> Get(spec, "description", ""),
     alias |-> Get(spec, "alias", FALSE),
     groups |-> Get(spec, "groups", <<>>)]

pinsDefinitionUnfiltered(spec, pads) ==
    [j \in 1..Len(pads) |->
        pinDefinition(IF pads[j].name \in DOMAIN spec THEN spec[pads[j].name]
                      ELSE [name |-> pads[j].name], pads[j])]

pinsDefinition(spec, pads) ==
    LET named == SelectSeq(pads, LAMBDA pad : pad.name \in DOMAIN spec)
    IN  [j \in 1..Len(named) |-> pinDefinition(spec[named[j].name], named[j])]

IdlePins ==
    /\ pinsSpec = <<>>
    /\ footprint = <<>>
    /\ pinsOut = <<>>

InitPins ==
    /\ pc = "call"
    /\ pinsSpec \in PinsSpecs
    /\ footprint \in Footprints
    /\ pinsOut = <<>>

PinsDefinition ==
    /\ pc = "call"
    /\ pinsOut' = pinsDefinition(pinsSpec, footprint)
    /\ pc' = "done"
    /\ UNCHANGED <<pinsSpec, footprint>>
    /\ UNCHANGED <<rectVars, collectVars, validateVars, genVars>>

----------------------------------------------------------------------------
(* collectGroups.  A group name is spelled as the sequence of its          *)
(* characters, a character being a name of length one, because set.update *)
(* iterates over every argument it is handed, and a string handed to it is *)
(* iterated character by character.  Names are ordered as Python orders    *)
(* strings: character by character, a proper prefix first.                 *)

Alphabet == <<"g", "i", "o", "p", "w">>     \* in code-point order

GroupNames == {<<"g">>, <<"i", "o">>, <<"p", "w">>}

GroupLists == UNION {[1..n -> GroupNames] : n \in 0..MaxGroups}

ShortGroupLists == {<<>>} \cup {<<g>> : g \in GroupNames}

Ord(c) == CHOOSE i \in DOMAIN Alphabet : Alphabet[i] = c

StrLess(a, b) ==
    \E i \in 1..(Len(b)) :
        /\ \A j \in 1..(i - 1) : j <= Len(a) /\ a[j] = b[j]
        /\ \/ i = Len(a) + 1
           \/ i <= Len(a) /\ Ord(a[i]) < Ord(b[i])

RECURSIVE sorted(_)
sorted(S) ==
    IF S = {} THEN <<>>
    ELSE LET least == CHOOSE a \in S : \A b \in S \ {a} : StrLess(a, b)
         IN  <<least>> \o sorted(S \ {least})

Iterate(name) == {<<name[i]>> : i \in DOMAIN name}     \* iterating a string

PinSpecsWithGroups ==
    {[name |-> "A"]} \cup {[name |-> "A", groups |-> g] : g \in GroupLists}

ComponentsR1 ==
    {[description |-> "r", pins |-> [k \in {"1"} |-> p]] : p \in PinSpecsWithGroups}
    \cup {[description |-> "r", groups |-> g, pins |-> [k \in {"1"} |-> p]] :
            g \in GroupLists, p \in PinSpecsWithGroups}

ComponentsU1 ==
    {[description |-> "u", pins |-> <<>>]}
    \cup {[description |-> "u", groups |-> g, pins |-> <<>>] : g \in ShortGroupLists}

ComponentMaps ==
    {<<>>}
    \cup {[k \in {"R1"} |-> c] : c \in ComponentsR1}
    \cup {[k \in {"U1"} |-> c] : c \in ComponentsU1}
    \cup {[k \in {"R1", "U1"} |-> IF k = "R1" THEN c ELSE d] :
            c \in ComponentsR1, d \in ComponentsU1}

ComponentGroups(c) == UNION {Iterate(g) : g \in Range(Get(c, "groups", <<>>))}

PinGroups(c) == UNION {Range(Get(c.pins[p], "groups", <<>>)) : p \in DOMAIN c.pins}

collectGroups(comps) ==
    LET gs == UNION {ComponentGroups(comps[r]) \cup PinGroups(comps[r]) : r \in DOMAIN comps}
        keys == sorted(gs)
    IN  [i \in 1..Len(keys) |-> <<keys[i], <<>> >>]

IdleCollect ==
    /\ components = <<>>
    /\ collected = <<>>

InitCollect ==
    /\ pc = "call"
    /\ components \in ComponentMaps
    /\ collected = <<>>

CollectGroups ==
    /\ pc = "call"
    /\ collected' = collectGroups(components)
    /\ pc' = "done"
    /\ UNCHANGED components
    /\ UNCHANGED <<rectVars, pinVars, validateVars, genVars>>

----------------------------------------------------------------------------
(* validateGroupStructure.  A value of the annotation document is tagged   *)
(* with its Python type: None, a dict, a list, or anything else (written   *)
(* as the number 5).  Dictionary keys and list items are atoms: strings,   *)
(* or the integer 5 written "#5", which is the one atom that is no str.    *)

Null == [t |-> "null"]
Num == [t |-> "int"]
List(l) == [t |-> "list", l |-> l]
Dict(d) == [t |-> "dict", d |-> d]
Raise == [t |-> "fault"]

Atoms == {"x", "y", "#5"}

isStr(key) == key # "#5"

Lists == {List(l) : l \in UNION {[1..n -> Atoms] : n \in 0..MaxLen}}

Maps(K, V) == UNION {[S -> V] : S \in SUBSET K}

InnerDicts == {Dict(f) : f \in Maps({"x", "#5"}, {Null, Num, List(<<"y">>), Dict(<<>>)})}

Structs ==
    {Null, Num, List(<<"x">>)}
    \cup {Dict(f) : f \in Maps({"a", "b"}, {Null, Num} \cup Lists \cup InnerDicts)}

RECURSIVE validateGroupStructure(_)

validateGroupStructureDropsNull(st) ==
    IF st.t # "dict" THEN Raise
    ELSE LET nested == [k \in DOMAIN st.d |->
                            IF st.d[k].t = "dict" THEN validateGroupStructure(st.d[k])
                            ELSE st.d[k]]
         IN  IF \E k \in DOMAIN st.d : ~isStr(k) \/ nested[k].t = "fault" THEN Raise
             ELSE Dict([k \in {j \in DOMAIN st.d : st.d[j].t \in {"dict", "list"}} |->
                          IF st.d[k].t = "dict" THEN nested[k]
                          ELSE Dict([v \in Range(st.d[k].l) |-> Dict(<<>>)])])

validateGroupStructure(st) ==
    IF st.t # "dict" THEN Raise
    ELSE LET nested == [k \in DOMAIN st.d |->
                            IF st.d[k].t = "dict" THEN validateGroupStructure(st.d[k])
                            ELSE st.d[k]]
         IN  IF \E k \in DOMAIN st.d : ~isStr(k) \/ nested[k].t = "fault" THEN Raise
             ELSE Dict([k \in {j \in DOMAIN st.d : st.d[j].t \in {"null", "dict", "list"}} |->
                          IF st.d[k].t = "null" THEN Dict(<<>>)
                          ELSE IF st.d[k].t = "dict" THEN nested[k]
                          ELSE Dict([v \in Range(st.d[k].l) |-> Dict(<<>>)])])

IdleValidate ==
    /\ struct = Null
    /\ newStruct = Null
    /\ reStruct = Null

InitValidate ==
    /\ pc = "call"
    /\ struct \in Structs
    /\ newStruct = Null
    /\ reStruct = Null

ValidateGroupStructure ==
    /\ pc = "call"
    /\ newStruct' = validateGroupStructure(struct)
    /\ pc' = IF newStruct'.t = "fault" THEN "raised" ELSE "returned"
    /\ UNCHANGED <<struct, reStruct>>
    /\ UNCHANGED <<rectVars, pinVars, collectVars, genVars>>

Revalidate ==
    /\ pc = "returned"
    /\ reStruct' = validateGroupStructure(newStruct)
    /\ pc' = "done"
    /\ UNCHANGED <<struct, newStruct>>
    /\ UNCHANGED <<rectVars, pinVars, collectVars, genVars>>

----------------------------------------------------------------------------
(* componentsDefinition and groupStructure.  A Python dict whose order     *)
(* matters is the pair of its keys in insertion order and its mapping.     *)
(* board.FindModule(ref) yields None for a reference the board has no      *)
(* footprint for, and the first use of None raises.                        *)

componentsDefinition(spec, brd) ==
    IF \E i \in DOMAIN spec.keys : spec.keys[i] \notin DOMAIN brd THEN Raise
    ELSE [t |-> "ok",
          defs |-> [i \in DOMAIN spec.keys |->
                      LET ref == spec.keys[i]
                          s == spec.at[ref]
                      IN  [ref |-> ref,
                           description |-> s.description,
                           highlight |-> Get(s, "highlight", FALSE),
                           groups |-> Get(s, "groups", <<>>),
                           pins |-> pinsDefinition(s.pins, brd[ref])]]]

groupStructure(structure, comps) ==
    IF structure.t = "null" THEN collectGroups(comps)
    ELSE validateGroupStructure(structure)

----------------------------------------------------------------------------
(* svgToBitmap, generateImage and generate.                                *)

Exts == {".png", ".PNG", ".jpg", ".jpeg", ".bmp"}

splitext(filename) == filename[2]

lower(ext) == IF ext = ".PNG" THEN ".png" ELSE ext

imageTypeDefaultsToPng(ext) ==
    IF lower(ext) \in {".jpg", ".jpeg"} THEN "jpeg" ELSE "png32"

imageType(ext) ==
    IF lower(ext) = ".png" THEN "png32"
    ELSE IF lower(ext) \in {".jpg", ".jpeg"} THEN "jpeg"
    ELSE "unsupported"

Side(b) == IF b THEN "back" ELSE "front"

\* The viewBox attribute of the rendered image: four numbers, or text that
\* does not split into four numbers.
ViewBoxes == {<<0, 0, 10000, 5000>>, <<-100, -50, 300, 200>>}

viewBoxArea(vb) ==
    [tl |-> <<ki2mm(dmil2ki(vb[1])), ki2mm(dmil2ki(vb[2]))>>,
     br |-> <<ki2mm(dmil2ki(vb[1] + vb[3])), ki2mm(dmil2ki(vb[2] + vb[4]))>>]

\* Leaving the `with tempfile.TemporaryDirectory()` block removes the
\* directory and what it holds, whether the block returned or raised.
cleanupOnReturnOnly(exists, side, raised) ==
    IF raised THEN exists ELSE [exists EXCEPT ![side] = FALSE]

cleanup(exists, side, raised) == [exists EXCEPT ![side] = FALSE]

\* The statements of generate, in program order.
GenerateOrderWriteFirst == <<"front", "back", "write", "components", "groups">>

GenerateOrderBackLate == <<"front", "components", "groups", "back", "write">>

GenerateOrder == <<"front", "back", "components", "groups", "write">>

GenRefs == {"R1", "U1"}

GenComponent(ref) ==
    IF ref = "R1"
    THEN [description |-> "resistor",
          pins |-> [k \in {"1", "2"} |-> [name |-> IF k = "1" THEN "A" ELSE "B"]]]
    ELSE [description |-> "mcu", groups |-> << <<"p", "w">> >>,
          pins |-> [k \in {"1"} |-> [name |-> "A", groups |-> << <<"g">> >>]]]

GenFootprint(ref) ==
    IF ref = "R1" THEN <<Pad("1", 1), Pad("2", 2)>>
    ELSE <<Pad("1", 1), Pad("2", 2), Pad("3", 3)>>

GenKeys == {<<>>, <<"R1">>, <<"U1">>, <<"R1", "U1">>, <<"U1", "R1">>}

GenStructs ==
    {Dict([k \in {"a", "b"} |-> IF k = "a" THEN List(<<"x", "y">>) ELSE Null]),
     Dict([k \in {"a"} |-> Num]),
     Dict([k \in {"#5"} |-> Null]),
     List(<<"x">>)}

GenComponents(keys) == [keys |-> keys, at |-> [r \in Range(keys) |-> GenComponent(r)]]

Documents ==
    {[name |-> "board", description |-> "demo", jsonable |-> j,
      components |-> GenComponents(keys)] : j \in BOOLEAN, keys \in GenKeys}
    \cup {[name |-> "board", description |-> "demo", jsonable |-> j,
           components |-> GenComponents(keys), groups |-> g] :
            j \in BOOLEAN, keys \in GenKeys, g \in GenStructs}

Boards == {[r \in S |-> GenFootprint(r)] : S \in SUBSET GenRefs}

NoArea == viewBoxArea(<<0, 0, 0, 0>>)

IdleGenerate ==
    /\ entry = "none"
    /\ stage = 0
    /\ back = FALSE
    /\ outputfilename = <<"front", ".png">>
    /\ tmpdir = [s \in Sides |-> FALSE]
    /\ svg = [s \in Sides |-> FALSE]
    /\ outfiles = {}
    /\ specFile = "unwritten"
    /\ area = [s \in Sides |-> NoArea]
    /\ specification = [name |-> "board", description |-> "demo", jsonable |-> TRUE,
                        components |-> GenComponents(<<>>)]
    /\ board = <<>>
    /\ defs = <<>>
    /\ groups = <<>>
    /\ fault = "none"
    /\ log = <<>>

InitGenerate ==
    /\ entry \in {"generate", "generateImage"}
    /\ stage = 0
    /\ tmpdir = [s \in Sides |-> FALSE]
    /\ svg = [s \in Sides |-> FALSE]
    /\ outfiles = {}
    /\ specFile = "unwritten"
    /\ area = [s \in Sides |-> NoArea]
    /\ defs = <<>>
    /\ groups = <<>>
    /\ fault = "none"
    /\ log = <<>>
    /\ IF entry = "generate"
       THEN /\ pc = "generate"
            /\ back = FALSE
            /\ outputfilename = <<"front", ".png">>
            /\ specification \in Documents
            /\ board \in Boards
       ELSE /\ pc = "tmpdir"
            /\ back \in Sides
            /\ outputfilename \in {<<"img", e>> : e \in Exts}
            /\ specification = [name |-> "board", description |-> "demo",
                                jsonable |-> TRUE, components |-> GenComponents(<<>>)]
            /\ board = <<>>

\* Control passes to statement i of generate; past the last one, generate returns.
EnterStage(i) ==
    /\ stage' = i
    /\ IF i > Len(GenerateOrder)
       THEN pc' = "done" /\ UNCHANGED <<back, outputfilename>>
       ELSE LET s == GenerateOrder[i]
            IN  /\ pc' = CASE s \in {"front", "back"} -> "tmpdir"
                           [] s = "write" -> "open"
                           [] OTHER -> s
                /\ back' = IF s \in {"front", "back"} THEN (s = "back") ELSE back
                /\ outputfilename' = IF s \in {"front", "back"} THEN <<s, ".png">>
                                     ELSE outputfilename

\* generate, lines 183-184: the output directory is made, then the front side starts.
Generate ==
    /\ pc = "generate"
    /\ EnterStage(1)
    /\ log' = Append(log, <<"mkdir", "outputdir">>)
    /\ UNCHANGED <<entry, tmpdir, svg, outfiles, specFile, area, specification, board,
                   defs, groups, fault>>
    /\ UNCHANGED notGenVars

\* generateImage, lines 114-116.
MakeTemporaryDirectory ==
    /\ pc = "tmpdir"
    /\ tmpdir' = [tmpdir EXCEPT ![back] = TRUE]
    /\ log' = Append(log, <<"mkdtemp", Side(back)>>)
    /\ pc' = "pcbdraw"
    /\ UNCHANGED <<entry, stage, back, outputfilename, svg, outfiles, specFile, area,
                   specification, board, defs, groups, fault>>
    /\ UNCHANGED notGenVars

\* generateImage, lines 117-130: the renderer runs; it may or may not leave
\* img.svg behind, and check=True raises on a non-zero exit status.
Pcbdraw ==
    /\ pc = "pcbdraw"
    /\ \E status \in {0, 1}, wrote \in BOOLEAN :
        LET made == [svg EXCEPT ![back] = wrote]
            events == IF wrote THEN << <<"pcbdraw", Side(back)>>, <<"svg", Side(back)>> >>
                      ELSE << <<"pcbdraw", Side(back)>> >>
        IN  /\ log' = log \o events
            /\ IF status = 0
               THEN /\ svg' = made
                    /\ pc' = "bitmap"
                    /\ UNCHANGED <<tmpdir, fault>>
               ELSE /\ svg' = cleanup(made, back, TRUE)
                    /\ tmpdir' = cleanup(tmpdir, back, TRUE)
                    /\ fault' = "RendererFailure"
                    /\ pc' = "done"
    /\ UNCHANGED <<entry, stage, back, outputfilename, outfiles, specFile, area,
                   specification, board, defs, groups>>
    /\ UNCHANGED notGenVars

\* svgToBitmap, lines 90-104: the vector image is read, then the encoder is
\* chosen by the extension, then the bitmap is written.
SvgToBitmap ==
    /\ pc = "bitmap"
    /\ \E readable \in BOOLEAN :
        IF ~svg[back] \/ ~readable
        THEN /\ fault' = "RasterFault"
             /\ svg' = cleanup(svg, back, TRUE)
             /\ tmpdir' = cleanup(tmpdir, back, TRUE)
             /\ pc' = "done"
             /\ UNCHANGED <<outfiles, log>>
        ELSE IF imageType(splitext(outputfilename)) = "unsupported"
        THEN /\ fault' = "UnsupportedImageFormat"
             /\ svg' = cleanup(svg, back, TRUE)
             /\ tmpdir' = cleanup(tmpdir, back, TRUE)
             /\ pc' = "done"
             /\ UNCHANGED <<outfiles, log>>
        ELSE /\ outfiles' = outfiles \cup {outputfilename}
             /\ log' = Append(log, <<"bitmap", outputfilename[1], outputfilename[2]>>)
             /\ pc' = "viewbox"
             /\ UNCHANGED <<fault, svg, tmpdir>>
    /\ UNCHANGED <<entry, stage, back, outputfilename, specFile, area, specification,
                   board, defs, groups>>
    /\ UNCHANGED notGenVars

\* generateImage, lines 134-139: the viewBox is parsed and the area returned;
\* generate then goes on to its next statement.
ParseViewBox ==
    /\ pc = "viewbox"
    /\ \/ /\ fault' = "ViewBoxFault"
          /\ svg' = cleanup(svg, back, TRUE)
          /\ tmpdir' = cleanup(tmpdir, back, TRUE)
          /\ pc' = "done"
          /\ UNCHANGED <<area, stage, back, outputfilename>>
       \/ /\ \E vb \in ViewBoxes : area' = [area EXCEPT ![back] = viewBoxArea(vb)]
          /\ svg' = cleanup(svg, back, FALSE)
          /\ tmpdir' = cleanup(tmpdir, back, FALSE)
          /\ IF entry = "generate" THEN EnterStage(stage + 1)
             ELSE pc' = "done" /\ UNCHANGED <<stage, back, outputfilename>>
          /\ UNCHANGED fault
    /\ UNCHANGED <<entry, outfiles, specFile, specification, board, defs, groups, log>>
    /\ UNCHANGED notGenVars

\* generate, line 202.
ComponentsDefinition ==
    /\ pc = "components"
    /\ LET res == componentsDefinition(specification.components, board)
       IN  IF res.t = "fault"
           THEN /\ fault' = "MissingComponent"
                /\ pc' = "done"
                /\ UNCHANGED <<defs, stage, back, outputfilename, log>>
           ELSE /\ defs' = res.defs
                /\ log' = Append(log, <<"assembled", "components">>)
                /\ EnterStage(stage + 1)
                /\ UNCHANGED fault
    /\ UNCHANGED <<entry, tmpdir, svg, outfiles, specFile, area, specification, board,
                   groups>>
    /\ UNCHANGED notGenVars

\* generate, line 203.
GroupStructure ==
    /\ pc = "groups"
    /\ LET res == groupStructure(Get(specification, "groups", Null),
                                 specification.components.at)
       IN  IF Get(specification, "groups", Null).t # "null" /\ res.t = "fault"
           THEN /\ fault' = "InvalidGroupStructure"
                /\ pc' = "done"
                /\ UNCHANGED <<groups, stage, back, outputfilename, log>>
           ELSE /\ groups' = res
                /\ log' = Append(log, <<"resolved", "groups">>)
                /\ EnterStage(stage + 1)
                /\ UNCHANGED fault
    /\ UNCHANGED <<entry, tmpdir, svg, outfiles, specFile, area, specification, board,
                   defs>>
    /\ UNCHANGED notGenVars

\* generate, line 206: open(..., "w") creates spec.json empty.
OpenSpec ==
    /\ pc = "open"
    /\ specFile' = "empty"
    /\ log' = Append(log, <<"open", "spec.json">>)
    /\ pc' = "write"
    /\ UNCHANGED <<entry, stage, back, outputfilename, tmpdir, svg, outfiles, area,
                   specification, board, defs, groups, fault>>
    /\ UNCHANGED notGenVars

\* generate, line 207: json.dumps, which raises on a value JSON cannot
\* encode, then the write.
WriteSpec ==
    /\ pc = "write"
    /\ IF specification.jsonable
       THEN /\ specFile' = "complete"
            /\ log' = Append(log, <<"write", "spec.json">>)
            /\ EnterStage(stage + 1)
            /\ UNCHANGED fault
       ELSE /\ fault' = "SerializeFault"
            /\ pc' = "done"
            /\ UNCHANGED <<specFile, stage, back, outputfilename, log>>
    /\ UNCHANGED <<entry, tmpdir, svg, outfiles, area, specification, board, defs,
                   groups>>
    /\ UNCHANGED notGenVars

----------------------------------------------------------------------------
(* The specifications.                                                     *)

StartRect == InitRect /\ IdlePins /\ IdleCollect /\ IdleValidate /\ IdleGenerate

NextRect == SerializeEdaRect

SpecRect == StartRect /\ [][NextRect]_vars

StartPins == InitPins /\ IdleRect /\ IdleCollect /\ IdleValidate /\ IdleGenerate

NextPins == PinsDefinition

SpecPins == StartPins /\ [][NextPins]_vars

StartCollect == InitCollect /\ IdleRect /\ IdlePins /\ IdleValidate /\ IdleGenerate

NextCollect == CollectGroups

SpecCollect == StartCollect /\ [][NextCollect]_vars

StartValidate == InitValidate /\ IdleRect /\ IdlePins /\ IdleCollect /\ IdleGenerate

NextValidate == ValidateGroupStructure \/ Revalidate

SpecValidate == StartValidate /\ [][NextValidate]_vars

StartGenerate == InitGenerate /\ IdleRect /\ IdlePins /\ IdleCollect /\ IdleValidate

NextGenerate ==
    \/ Generate
    \/ MakeTemporaryDirectory
    \/ Pcbdraw
    \/ SvgToBitmap
    \/ ParseViewBox
    \/ ComponentsDefinition
    \/ GroupStructure
    \/ OpenSpec
    \/ WriteSpec

SpecGenerate == StartGenerate /\ [][NextGenerate]_vars

Spec == SpecGenerate

----------------------------------------------------------------------------
(* Properties of validateGroupStructure, under SpecValidate.               *)

IsStrList(v) == v.t = "list" /\ \A i \in DOMAIN v.l : isStr(v.l[i])

\* Some key, at some depth, has a value that is not None, not a dict and not
\* a list of strings.
RECURSIVE HasOtherValue(_)
HasOtherValue(st) ==
    \E k \in DOMAIN st.d :
        \/ st.d[k].t = "int"
        \/ st.d[k].t = "list" /\ ~IsStrList(st.d[k])
        \/ st.d[k].t = "dict" /\ HasOtherValue(st.d[k])

\* A mapping from strings to None, to a list of strings or to a mapping of
\* the same shape.
RECURSIVE IsValidStructure(_)
IsValidStructure(st) ==
    /\ st.t = "dict"
    /\ \A k \in DOMAIN st.d :
        /\ isStr(k)
        /\ \/ st.d[k].t = "null"
           \/ IsStrList(st.d[k])
           \/ st.d[k].t = "dict" /\ IsValidStructure(st.d[k])

\* `out` is the canonical form of `in`, level by level.
RECURSIVE IsCanonicalOf(_, _)
IsCanonicalOf(out, in) ==
    /\ out.t = "dict"
    /\ DOMAIN out.d = DOMAIN in.d
    /\ \A k \in DOMAIN in.d :
        CASE in.d[k].t = "null" -> out.d[k] = Dict(<<>>)
          [] in.d[k].t = "list" ->
                /\ out.d[k].t = "dict"
                /\ DOMAIN out.d[k].d = Range(in.d[k].l)
                /\ \A v \in DOMAIN out.d[k].d : out.d[k].d[v] = Dict(<<>>)
          [] in.d[k].t = "dict" -> IsCanonicalOf(out.d[k], in.d[k])
          [] OTHER -> FALSE

ExampleStruct == Dict([k \in {"a", "b"} |-> IF k = "a" THEN List(<<"x", "y">>) ELSE Null])

ExampleCanonical ==
    Dict([k \in {"a", "b"} |->
            IF k = "a" THEN Dict([v \in {"x", "y"} |-> Dict(<<>>)]) ELSE Dict(<<>>)])

\* C1: whenever some key of the supplied mapping, at any depth, has a value
\* that is not null, not a mapping and not a sequence of strings, the call
\* ends in a fault and returns no result.
C1_OtherValueIsFault ==
    (pc # "call" /\ struct.t = "dict" /\ HasOtherValue(struct)) => newStruct.t = "fault"

\* C4: a valid input is canonicalized: the result has exactly the input's
\* keys at every level, a null becomes an empty leaf, a nested mapping its
\* own canonical form, a sequence of strings a mapping of each string to an
\* empty leaf; {"a": ["x","y"], "b": null} gives {"a": {"x": {}, "y": {}}, "b": {}}.
C4_Canonicalizes ==
    (pc # "call" /\ IsValidStructure(struct)) =>
        /\ IsCanonicalOf(newStruct, struct)
        /\ struct = ExampleStruct => newStruct = ExampleCanonical

C4_Witness ==
    /\ pc = "returned"
    /\ struct = ExampleStruct
    /\ newStruct = ExampleCanonical

\* C5: validation is idempotent: validating the result of an accepted
\* structure succeeds and returns that same result.
C5_Idempotent == pc = "done" => reStruct = newStruct

----------------------------------------------------------------------------
(* Properties of collectGroups, under SpecCollect.                         *)

AllGroupNames(comps) ==
    UNION {Range(Get(comps[r], "groups", <<>>)) \cup PinGroups(comps[r]) : r \in DOMAIN comps}

\* C2: the keys of the auto-collected taxonomy are exactly the group names
\* listed by the components and the pins, each once and in ascending order.
C2_KeysAreGroupNames ==
    pc = "done" =>
        /\ {collected[i][1] : i \in DOMAIN collected} = AllGroupNames(components)
        /\ \A i, j \in DOMAIN collected : i < j => StrLess(collected[i][1], collected[j][1])

----------------------------------------------------------------------------
(* Properties of serializeEdaRect, under SpecRect.                         *)

\* C3: for every rectangle, whatever the signs of its width and height, the
\* returned top-left corner is not beyond the bottom-right one in x or in y.
C3_CornersOrdered ==
    pc = "done" => MmLeq(bbox.tl[1], bbox.br[1]) /\ MmLeq(bbox.tl[2], bbox.br[2])

----------------------------------------------------------------------------
(* Properties of pinsDefinition, under SpecPins.                           *)

NamedPads == {i \in DOMAIN footprint : footprint[i].name \in DOMAIN pinsSpec}

\* The pad a pin was built from: the one at the pin's position.
PadOf(pin) == {i \in DOMAIN footprint : pin.pos = <<ki2mm(footprint[i].x), ki2mm(footprint[i].y)>>}

\* C6: the result holds exactly one pin for each pad whose name is a key of
\* the pins mapping and none for any other pad, in the order of the pads.
C6_PinsFollowPads ==
    pc = "done" =>
        /\ \A i \in NamedPads : Cardinality({j \in DOMAIN pinsOut : PadOf(pinsOut[j]) = {i}}) = 1
        /\ \A j \in DOMAIN pinsOut :
            \E i \in NamedPads :
                /\ PadOf(pinsOut[j]) = {i}
                /\ pinsOut[j].name = pinsSpec[footprint[i].name].name
        /\ \A j, k \in DOMAIN pinsOut :
            j < k => \A a \in PadOf(pinsOut[j]), b \in PadOf(pinsOut[k]) : a < b

C6_Witness ==
    /\ pc = "done"
    /\ [i \in DOMAIN footprint |-> footprint[i].name] = <<"1", "2", "3", "4">>
    /\ DOMAIN pinsSpec = {"1", "3"}
    /\ [j \in DOMAIN pinsOut |-> pinsOut[j].pos[1].num] = <<1, 3>>

----------------------------------------------------------------------------
(* Properties of generateImage and generate, under SpecGenerate.           *)

Happened(event) == \E i \in DOMAIN log : log[i] = event

PcbdrawCalls == SelectSeq(log, LAMBDA e : e[1] = "pcbdraw")

SpecJsonTouched == specFile # "unwritten" \/ Happened(<<"open", "spec.json">>)

\* C7: a run of generate that ends in a renderer failure, an unsupported
\* image format, a missing component or an invalid group structure has not
\* written spec.json, not even partially; spec.json is written only after
\* both sides are rendered, the components assembled and the groups resolved.
C7_NoSpecJsonOnFault ==
    entry = "generate" =>
        /\ fault \in {"RendererFailure", "UnsupportedImageFormat", "MissingComponent",
                      "InvalidGroupStructure"} => ~SpecJsonTouched
        /\ SpecJsonTouched =>
            /\ {<<"front", ".png">>, <<"back", ".png">>} \subseteq outfiles
            /\ Happened(<<"assembled", "components">>)
            /\ Happened(<<"resolved", "groups">>)

C7_Witness ==
    /\ entry = "generate"
    /\ pc = "done"
    /\ fault = "InvalidGroupStructure"
    /\ Happened(<<"assembled", "components">>)
    /\ ~SpecJsonTouched

\* C8 as claimed: the unsupported extension is reported before the renderer
\* is invoked for that side, with no vector image and no bitmap written.
C8_FailsBeforeRenderer ==
    fault = "UnsupportedImageFormat" =>
        /\ ~Happened(<<"pcbdraw", Side(back)>>)
        /\ ~Happened(<<"svg", Side(back)>>)
        /\ outputfilename \notin outfiles

\* C8 as amended: with an extension other than .png, .jpg or .jpeg the call
\* never writes the bitmap and never returns normally; the unsupported
\* format is reported only after the renderer has been invoked for that
\* side and has written the vector image, which is gone, with its
\* directory, when the fault is raised.
C8_FailsBeforeBitmap ==
    lower(splitext(outputfilename)) \notin {".png", ".jpg", ".jpeg"} =>
        /\ outputfilename \notin outfiles
        /\ ~Happened(<<"bitmap", outputfilename[1], outputfilename[2]>>)
        /\ pc = "done" => fault \in {"RendererFailure", "RasterFault", "UnsupportedImageFormat"}
        /\ fault = "UnsupportedImageFormat" =>
            /\ Happened(<<"pcbdraw", Side(back)>>)
            /\ Happened(<<"svg", Side(back)>>)
            /\ ~svg[back] /\ ~tmpdir[back]

C8_Witness ==
    /\ pc = "done"
    /\ outputfilename = <<"img", ".bmp">>
    /\ fault = "UnsupportedImageFormat"
    /\ Happened(<<"pcbdraw", Side(back)>>)

\* C9: once generateImage has returned or raised for a side, on whichever
\* path, neither the temporary directory nor the vector image of that side
\* exists: they exist only while the call for that side is inside the block.
C9_TemporariesRemoved ==
    \A s \in Sides :
        (tmpdir[s] \/ svg[s]) => (back = s /\ pc \in {"pcbdraw", "bitmap", "viewbox"})

C9_Witness ==
    /\ pc = "done"
    /\ fault = "RendererFailure"
    /\ Happened(<<"svg", Side(back)>>)
    /\ ~tmpdir[back] /\ ~svg[back]

\* C10: the components are assembled and the group structure resolved only
\* after both sides are rendered and their bitmaps written; a run that ends
\* in a missing component or an invalid group structure leaves front.png
\* and back.png, no spec.json, and the renderer invoked exactly twice,
\* front then back.
C10_BothSidesBeforeAssembly ==
    (entry = "generate" /\ (pc \in {"components", "groups"}
                            \/ fault \in {"MissingComponent", "InvalidGroupStructure"})) =>
        /\ {<<"front", ".png">>, <<"back", ".png">>} \subseteq outfiles
        /\ ~SpecJsonTouched
        /\ PcbdrawCalls = << <<"pcbdraw", "front">>, <<"pcbdraw", "back">> >>

C10_Witness ==
    /\ entry = "generate"
    /\ pc = "done"
    /\ fault = "MissingComponent"
    /\ outfiles = {<<"front", ".png">>, <<"back", ".png">>}
    /\ Len(PcbdrawCalls) = 2

====
